---- MODULE Spec2Model ----
\* The user-management CLI of app/cli.py: eight commands over one User table.
\* The store holds the committed rows in its natural (insertion) order; every
\* command runs inside one scoped session and ends the process with an exit code.
EXTENDS Integers, Sequences, FiniteSets

VARIABLES
    schema,   \* TRUE once the User table exists in the store
    users,    \* the committed User rows, in the store's natural order
    last      \* the most recent command invocation: its arguments and what it printed

vars == <<schema, users, last>>

-----------------------------------------------------------------------------
\* Bounds of the model

MaxId == 3          \* ids the store may hand out before create_user is cut off
MaxLimit == 3       \* --limit values tried, besides the default
MaxOffset == 3      \* --offset values tried
MaxRows == 12       \* size of the seeded stores of SpecList

DefaultLimit == 10
DefaultOffset == 0

Usernames == {"bob", "al"}
Emails == {"bob@mail.com", "al@mail.com", "x@y.z"}
Passwords == {"bobpass", "pw"}
Queries == {"", "bob", "l@", "mail", "zz", "%", "_", "b_b"}
Limits == (0..MaxLimit) \cup {DefaultLimit}
Offsets == (0..MaxOffset) \cup {DefaultOffset}

-----------------------------------------------------------------------------
\* The User entity and the store

\* User(username, email, password): a transient object, id not yet assigned (0)
User(username, email, password) ==
    [id |-> 0, username |-> username, email |-> email, password |-> password]

Ids(rows) == {rows[i].id : i \in 1..Len(rows)}

\* the id the store assigns to the next inserted row
NextId(rows) ==
    IF rows = <<>> THEN 1
    ELSE (CHOOSE m \in Ids(rows) : \A k \in Ids(rows) : k <= m) + 1

\* the uniqueness constraints declared on username and on email
UniqueOK_username_only(rows) ==
    \A i, j \in 1..Len(rows) : i # j => rows[i].username # rows[j].username

UniqueOK(rows) ==
    \A i, j \in 1..Len(rows) :
        i # j => /\ rows[i].username # rows[j].username
                 /\ rows[i].email # rows[j].email

-----------------------------------------------------------------------------
\* The session: rows is the committed table, pending the session's own view

get_session(sch, rows) ==
    [schema |-> sch, rows |-> rows, pending |-> rows, open |-> TRUE,
     out |-> "", result |-> <<>>, exc |-> ""]

\* db.add(obj): a transient object is inserted (the store assigns its id at
\* flush), a persistent one replaces the row with its id
add(db, obj) ==
    IF obj.id = 0
    THEN [db EXCEPT !.pending = Append(@, [obj EXCEPT !.id = NextId(db.pending)])]
    ELSE [db EXCEPT !.pending =
              [i \in 1..Len(@) |-> IF @[i].id = obj.id THEN obj ELSE @[i]]]

\* db.delete(obj)
delete(db, obj) ==
    LET Keep(r) == r.id # obj.id
    IN  [db EXCEPT !.pending = SelectSeq(@, Keep)]

\* db.commit(): the store rejects a flush that breaks a uniqueness constraint
commit(db) ==
    IF UniqueOK(db.pending)
    THEN [db EXCEPT !.rows = db.pending]
    ELSE [db EXCEPT !.exc = "IntegrityError"]

\* db.rollback() in the except clause: the pending writes are dropped
rollback(db) == [db EXCEPT !.pending = db.rows, !.exc = ""]

\* print(...)
print_text(db, text) == [db EXCEPT !.out = text]
print_rows(db, rs) == [db EXCEPT !.result = rs]

\* a query against a store without the User table fails
NoTable(db) == [db EXCEPT !.exc = "OperationalError"]

\* leaving the `with get_session() as db:` block, by return or by exception:
\* the session is closed and what it had not committed is gone
with_exit(db) == [db EXCEPT !.open = FALSE, !.pending = db.rows]

\* select(User).where(User.username == username)
where_username(rows, username) ==
    LET Match(r) == r.username = username
    IN  SelectSeq(rows, Match)

\* column.contains(query): the store evaluates column LIKE '%' || query || '%',
\* where % in the pattern stands for any run of characters and _ for any one
RECURSIVE Like(_, _)
Like(s, pattern) ==
    IF pattern = "" THEN s = ""
    ELSE LET c == SubSeq(pattern, 1, 1)
             rest == SubSeq(pattern, 2, Len(pattern))
         IN  IF c = "%"
             THEN \E k \in 0..Len(s) : Like(SubSeq(s, k + 1, Len(s)), rest)
             ELSE /\ s # ""
                  /\ (c = "_" \/ c = SubSeq(s, 1, 1))
                  /\ Like(SubSeq(s, 2, Len(s)), rest)

contains(column, query) == Like(column, "%" \o query \o "%")

\* .offset(n): the first n rows are skipped
RECURSIVE Skip(_, _)
Skip(rows, n) ==
    IF n = 0 \/ rows = <<>> THEN rows ELSE Skip(Tail(rows), n - 1)

\* .limit(n): at most n rows are returned
RECURSIVE AtMost(_, _)
AtMost(rows, n) ==
    IF n = 0 \/ rows = <<>> THEN <<>> ELSE <<Head(rows)>> \o AtMost(Tail(rows), n - 1)

\* drop_all(): every table goes, with its rows
drop_all(db) == [db EXCEPT !.schema = FALSE, !.rows = <<>>, !.pending = <<>>]

\* create_db_and_tables(): the schema of the User entity is created
create_db_and_tables(db) == [db EXCEPT !.schema = TRUE]

-----------------------------------------------------------------------------
\* The commands. Each yields the session as the command leaves it.

initialize_keep_tables(sch, rows) ==
    LET db == get_session(sch, rows)
        bob == User("bob", "bob@mail.com", "bobpass")
        db1 == commit(add(create_db_and_tables(db), bob))
    IN  IF db1.exc # "" THEN with_exit(db1)
        ELSE with_exit(print_text(db1, "Database Initialized"))

initialize(sch, rows) ==
    LET db == get_session(sch, rows)
        bob == User("bob", "bob@mail.com", "bobpass")
        db1 == commit(add(create_db_and_tables(drop_all(db)), bob))
    IN  IF db1.exc # "" THEN with_exit(db1)
        ELSE with_exit(print_text(db1, "Database Initialized"))

get_user(sch, rows, username) ==
    LET db == get_session(sch, rows)
        found == where_username(db.pending, username)
    IN  IF ~db.schema THEN with_exit(NoTable(db))
        ELSE IF found = <<>> THEN with_exit(print_text(db, username \o " not found!"))
        ELSE with_exit(print_rows(db, <<Head(found)>>))

get_all_users(sch, rows) ==
    LET db == get_session(sch, rows)
        all_users == db.pending
    IN  IF ~db.schema THEN with_exit(NoTable(db))
        ELSE IF all_users = <<>> THEN with_exit(print_text(db, "No users found"))
        ELSE with_exit(print_rows(db, all_users))

change_email_wrong_field(sch, rows, username, new_email) ==
    LET db == get_session(sch, rows)
        found == where_username(db.pending, username)
    IN  IF ~db.schema THEN with_exit(NoTable(db))
        ELSE IF found = <<>>
        THEN with_exit(print_text(db, username \o " not found! Unable to update email."))
        ELSE LET user == [Head(found) EXCEPT !.password = new_email]
                 db1 == commit(add(db, user))
             IN  IF db1.exc # "" THEN with_exit(db1)
                 ELSE with_exit(print_text(db1,
                    "Updated " \o user.username \o "'s email to " \o user.email))

change_email_close_at_end(sch, rows, username, new_email) ==
    LET db == get_session(sch, rows)
        found == where_username(db.pending, username)
    IN  IF ~db.schema THEN NoTable(db)
        ELSE IF found = <<>>
        THEN with_exit(print_text(db, username \o " not found! Unable to update email."))
        ELSE LET user == [Head(found) EXCEPT !.email = new_email]
                 db1 == commit(add(db, user))
             IN  IF db1.exc # "" THEN db1
                 ELSE with_exit(print_text(db1,
                    "Updated " \o user.username \o "'s email to " \o user.email))

change_email(sch, rows, username, new_email) ==
    LET db == get_session(sch, rows)
        found == where_username(db.pending, username)
    IN  IF ~db.schema THEN with_exit(NoTable(db))
        ELSE IF found = <<>>
        THEN with_exit(print_text(db, username \o " not found! Unable to update email."))
        ELSE LET user == [Head(found) EXCEPT !.email = new_email]
                 db1 == commit(add(db, user))
             IN  IF db1.exc # "" THEN with_exit(db1)
                 ELSE with_exit(print_text(db1,
                    "Updated " \o user.username \o "'s email to " \o user.email))

create_user_uncaught(sch, rows, username, email, password) ==
    LET db == get_session(sch, rows)
        newuser == User(username, email, password)
        db1 == commit(add(db, newuser))
    IN  IF ~db.schema THEN with_exit(NoTable(db))
        ELSE IF db1.exc # "" THEN with_exit(db1)
        ELSE with_exit(print_rows(db1, <<db1.rows[Len(db1.rows)]>>))

create_user_swapped(sch, rows, username, email, password) ==
    LET db == get_session(sch, rows)
        newuser == User(email, username, password)
        db1 == commit(add(db, newuser))
    IN  IF ~db.schema THEN with_exit(NoTable(db))
        ELSE IF db1.exc = "IntegrityError"
        THEN with_exit(print_text(rollback(db1), "Username or email already taken!"))
        ELSE with_exit(print_rows(db1, <<db1.rows[Len(db1.rows)]>>))

create_user(sch, rows, username, email, password) ==
    LET db == get_session(sch, rows)
        newuser == User(username, email, password)
        db1 == commit(add(db, newuser))
    IN  IF ~db.schema THEN with_exit(NoTable(db))
        ELSE IF db1.exc = "IntegrityError"
        THEN with_exit(print_text(rollback(db1), "Username or email already taken!"))
        ELSE with_exit(print_rows(db1, <<db1.rows[Len(db1.rows)]>>))

delete_user_no_commit(sch, rows, username) ==
    LET db == get_session(sch, rows)
        found == where_username(db.pending, username)
    IN  IF ~db.schema THEN with_exit(NoTable(db))
        ELSE IF found = <<>>
        THEN with_exit(print_text(db, username \o " not found! Unable to delete user."))
        ELSE with_exit(print_text(delete(db, Head(found)), username \o " deleted"))

delete_user(sch, rows, username) ==
    LET db == get_session(sch, rows)
        found == where_username(db.pending, username)
    IN  IF ~db.schema THEN with_exit(NoTable(db))
        ELSE IF found = <<>>
        THEN with_exit(print_text(db, username \o " not found! Unable to delete user."))
        ELSE with_exit(print_text(commit(delete(db, Head(found))), username \o " deleted"))

find_user(sch, rows, query) ==
    LET db == get_session(sch, rows)
        Match(r) == contains(r.username, query) \/ contains(r.email, query)
        found == SelectSeq(db.pending, Match)
    IN  IF ~db.schema THEN with_exit(NoTable(db))
        ELSE IF found = <<>>
        THEN with_exit(print_text(db, "No users found matching \"" \o query \o "\""))
        ELSE with_exit(print_rows(db, found))

list_users_swapped(sch, rows, limit, offset) ==
    LET db == get_session(sch, rows)
        page == AtMost(Skip(db.pending, limit), offset)
    IN  IF ~db.schema THEN with_exit(NoTable(db))
        ELSE IF page = <<>> THEN with_exit(print_text(db, "No users found"))
        ELSE with_exit(print_rows(db, page))

list_users(sch, rows, limit, offset) ==
    LET db == get_session(sch, rows)
        page == AtMost(Skip(db.pending, offset), limit)
    IN  IF ~db.schema THEN with_exit(NoTable(db))
        ELSE IF page = <<>> THEN with_exit(print_text(db, "No users found"))
        ELSE with_exit(print_rows(db, page))

-----------------------------------------------------------------------------
\* One CLI invocation: the command runs in its session, the process exits with
\* code 0 unless an exception left the command, and the store keeps what was
\* committed.

Invocation(cmd, args, db) ==
    [cmd |-> cmd, args |-> args, out |-> db.out, result |-> db.result,
     exc |-> db.exc, exit |-> IF db.exc = "" THEN 0 ELSE 1, open |-> db.open]

Init ==
    /\ schema = FALSE
    /\ users = <<>>
    /\ last = [cmd |-> "none", args |-> <<>>, out |-> "", result |-> <<>>,
               exc |-> "", exit |-> 0, open |-> FALSE]

Initialize ==
    LET db == initialize(schema, users)
    IN  /\ schema' = db.schema
        /\ users' = db.rows
        /\ last' = Invocation("initialize", <<>>, db)

GetUser ==
    \E username \in Usernames :
        LET db == get_user(schema, users, username)
        IN  /\ schema' = db.schema
            /\ users' = db.rows
            /\ last' = Invocation("get_user", <<username>>, db)

GetAllUsers ==
    LET db == get_all_users(schema, users)
    IN  /\ schema' = db.schema
        /\ users' = db.rows
        /\ last' = Invocation("get_all_users", <<>>, db)

ChangeEmail ==
    \E username \in Usernames, new_email \in Emails :
        LET db == change_email(schema, users, username, new_email)
        IN  /\ schema' = db.schema
            /\ users' = db.rows
            /\ last' = Invocation("change_email", <<username, new_email>>, db)

CreateUser ==
    \E username \in Usernames, email \in Emails, password \in Passwords :
        LET db == create_user(schema, users, username, email, password)
        IN  /\ NextId(users) <= MaxId
            /\ schema' = db.schema
            /\ users' = db.rows
            /\ last' = Invocation("create_user", <<username, email, password>>, db)

DeleteUser ==
    \E username \in Usernames :
        LET db == delete_user(schema, users, username)
        IN  /\ schema' = db.schema
            /\ users' = db.rows
            /\ last' = Invocation("delete_user", <<username>>, db)

FindUser ==
    \E query \in Queries :
        LET db == find_user(schema, users, query)
        IN  /\ schema' = db.schema
            /\ users' = db.rows
            /\ last' = Invocation("find_user", <<query>>, db)

ListUsers ==
    \E limit \in Limits, offset \in Offsets :
        LET db == list_users(schema, users, limit, offset)
        IN  /\ schema' = db.schema
            /\ users' = db.rows
            /\ last' = Invocation("list_users", <<limit, offset>>, db)

Next ==
    \/ Initialize
    \/ GetUser
    \/ GetAllUsers
    \/ ChangeEmail
    \/ CreateUser
    \/ DeleteUser
    \/ FindUser
    \/ ListUsers

Spec == Init /\ [][Next]_vars

-----------------------------------------------------------------------------
\* Paging over larger stores: the store already holds n users created one after
\* the other, and only the two listing commands run.

RECURSIVE Repeat(_, _)
Repeat(s, n) == IF n = 0 THEN "" ELSE s \o Repeat(s, n - 1)

Seeded(n) ==
    [i \in 1..n |->
        [id |-> i, username |-> Repeat("u", i),
         email |-> Repeat("u", i) \o "@mail.com", password |-> "pw"]]

InitList ==
    /\ schema = TRUE
    /\ users \in {Seeded(n) : n \in 0..MaxRows}
    /\ last = [cmd |-> "none", args |-> <<>>, out |-> "", result |-> <<>>,
               exc |-> "", exit |-> 0, open |-> FALSE]

NextList ==
    \/ GetAllUsers
    \/ ListUsers

SpecList == InitList /\ [][NextList]_vars

-----------------------------------------------------------------------------
\* Vocabulary of the properties, stated on the table itself

Positions(rows) == 1..Len(rows)
WithUsername(rows, u) == {i \in Positions(rows) : rows[i].username = u}
WithEmail(rows, e) == {i \in Positions(rows) : rows[i].email = e}
Min(a, b) == IF a <= b THEN a ELSE b
Taken == "Username or email already taken!"

\* q occurs in s as a run of consecutive characters
IsSubstring(q, s) ==
    \E k \in 0..(Len(s) - Len(q)) : SubSeq(s, k + 1, k + Len(q)) = q

-----------------------------------------------------------------------------
\* C1: in every reachable store no two User rows share a username and no two
\* share an email.
C1_UniqueUsernameAndEmail ==
    /\ Cardinality({users[i].username : i \in Positions(users)}) = Len(users)
    /\ Cardinality({users[i].email : i \in Positions(users)}) = Len(users)

\* two users are stored and the last command was a change_email to the email
\* the other user holds, which the store rejected
C1_Witness ==
    /\ Len(users) = 2
    /\ last.cmd = "change_email"
    /\ last.exc = "IntegrityError"
    /\ WithEmail(users, last.args[2]) # {}
    /\ WithEmail(users, last.args[2]) # WithUsername(users, last.args[1])

\* C2: create_user(u, e, p) with u or e already present reports "Username or
\* email already taken!", completes, and leaves the rows exactly as they were, so
\* exactly one row holds that username (that email) afterwards.
C2_DuplicateCreateRejected ==
    [][(/\ last'.cmd = "create_user"
        /\ schema
        /\ (WithUsername(users, last'.args[1]) # {} \/ WithEmail(users, last'.args[2]) # {}))
       => /\ last'.out = Taken
          /\ last'.exc = ""
          /\ last'.result = <<>>
          /\ users' = users
          /\ (WithUsername(users, last'.args[1]) # {}
                => Cardinality(WithUsername(users', last'.args[1])) = 1)
          /\ (WithEmail(users, last'.args[2]) # {}
                => Cardinality(WithEmail(users', last'.args[2])) = 1)]_vars

\* a create_user was turned down for its email alone: the username was free
C2_Witness ==
    /\ last.cmd = "create_user"
    /\ last.out = Taken
    /\ WithEmail(users, last.args[2]) # {}
    /\ WithUsername(users, last.args[1]) = {}

\* C3: create_user(u, e, p) with neither u nor e present succeeds, and a get_user(u)
\* right after it returns one record with username u, email e, password p and an
\* id no other row of the store has.
C3_CreateThenGet ==
    [][/\ (/\ last'.cmd = "create_user"
           /\ schema
           /\ WithUsername(users, last'.args[1]) = {}
           /\ WithEmail(users, last'.args[2]) = {})
          => /\ last'.exc = ""
             /\ last'.exit = 0
             /\ last'.out # Taken
             /\ Len(last'.result) = 1
       /\ (/\ last.cmd = "create_user"
           /\ last.result # <<>>
           /\ last'.cmd = "get_user"
           /\ last'.args[1] = last.args[1])
          => /\ Len(last'.result) = 1
             /\ last'.result[1].username = last.args[1]
             /\ last'.result[1].email = last.args[2]
             /\ last'.result[1].password = last.args[3]
             /\ last'.result[1].id >= 1
             /\ Cardinality({i \in Positions(users') :
                               users'[i].id = last'.result[1].id}) = 1]_vars

\* a user was just created next to one already stored
C3_Witness ==
    /\ last.cmd = "create_user"
    /\ last.exc = ""
    /\ Len(last.result) = 1
    /\ Len(users) = 2
    /\ WithUsername(users, last.args[1]) = {2}

\* C4: change_email(u, new_e) on an existing user keeps the number and order of
\* the rows, keeps every row's id, username and password, touches no row but
\* u's, and sets u's email to new_e when the store accepts it; and no command
\* but initialize (which drops the table) changes the username or password of
\* a row that is in the store before and after it.
C4_OnlyEmailChanges ==
    [][/\ (last'.cmd = "change_email" /\ WithUsername(users, last'.args[1]) # {})
          => /\ Len(users') = Len(users)
             /\ \A i \in Positions(users) :
                   /\ users'[i].id = users[i].id
                   /\ users'[i].username = users[i].username
                   /\ users'[i].password = users[i].password
                   /\ users[i].username # last'.args[1] => users'[i] = users[i]
                   /\ (users[i].username = last'.args[1] /\ last'.exc = "")
                        => users'[i].email = last'.args[2]
             /\ last'.exc # "" => users' = users
       /\ last'.cmd # "initialize"
          => \A i \in Positions(users), j \in Positions(users') :
                users[i].id = users'[j].id
                  => /\ users'[j].username = users[i].username
                     /\ users'[j].password = users[i].password]_vars

\* an accepted change_email of one of two stored users
C4_Witness ==
    /\ last.cmd = "change_email"
    /\ last.exc = ""
    /\ Len(users) = 2
    /\ \E i \in WithUsername(users, last.args[1]) : users[i].email = last.args[2]

\* C5: with the schema present every command invocation ends with exit code 0.
C5_AlwaysExitZero == schema => last.exit = 0

\* C6: delete_user(u) with u present removes exactly the rows named u and a
\* get_user(u) after it reports not-found; with u absent it reports not-found
\* and leaves the store as it was.
C6_DeleteRemovesExactlyOne ==
    [][/\ (last'.cmd = "delete_user" /\ schema)
          => LET u == last'.args[1]
                 Others(r) == r.username # u
             IN  IF WithUsername(users, u) # {}
                 THEN /\ users' = SelectSeq(users, Others)
                      /\ Len(users') = Len(users) - 1
                      /\ WithUsername(users', u) = {}
                      /\ last'.out = u \o " deleted"
                      /\ last'.exc = ""
                 ELSE /\ users' = users
                      /\ last'.out = u \o " not found! Unable to delete user."
                      /\ last'.exc = ""
       /\ (/\ last.cmd = "delete_user"
           /\ last.out = last.args[1] \o " deleted"
           /\ last'.cmd = "get_user"
           /\ last'.args[1] = last.args[1])
          => /\ last'.out = last.args[1] \o " not found!"
             /\ last'.result = <<>>
             /\ last'.exc = ""]_vars

\* one of two stored users was just deleted, the other is still there
C6_Witness ==
    /\ last.cmd = "delete_user"
    /\ last.out = last.args[1] \o " deleted"
    /\ Len(users) = 1
    /\ users[1].username # last.args[1]

\* C7: after initialize, whatever the store held, the store holds exactly one
\* row, the seed bob / bob@mail.com / bobpass, and the command completed.
C7_InitializeLeavesOnlySeed ==
    last.cmd = "initialize"
      => /\ schema
         /\ Len(users) = 1
         /\ users[1].username = "bob"
         /\ users[1].email = "bob@mail.com"
         /\ users[1].password = "bobpass"
         /\ last.out = "Database Initialized"
         /\ last.exit = 0

\* initialize has run and left its single seed row
C7_Witness ==
    /\ last.cmd = "initialize"
    /\ last.out = "Database Initialized"
    /\ Len(users) = 1
    /\ users[1].id = 1

\* C8: list_users(limit, offset) returns the rows at positions offset+1 ..
\* min(offset+limit, N) of what get_all_users returns, says "No users found"
\* exactly when there is none, and with the defaults returns the first
\* min(10, N) rows.
C8_PageOfAllUsers ==
    [][last'.cmd = "list_users"
       => LET limit == last'.args[1]
              offset == last'.args[2]
              all == get_all_users(schema, users).result
              N == Len(all)
              hi == Min(offset + limit, N)
              n == IF hi > offset THEN hi - offset ELSE 0
          IN  /\ Len(last'.result) = n
              /\ \A i \in 1..n : last'.result[i] = all[offset + i]
              /\ (last'.out = "No users found") <=> (n = 0)
              /\ last'.exc = ""
              /\ (limit = DefaultLimit /\ offset = DefaultOffset)
                   => last'.result = SubSeq(all, 1, Min(10, N))]_vars

\* the default page of a store of more than ten users: the first ten
C8_Witness ==
    /\ last.cmd = "list_users"
    /\ last.args = <<DefaultLimit, DefaultOffset>>
    /\ Len(users) > 10
    /\ Len(last.result) = 10
    /\ last.result[10] = users[10]

\* C9: every command leaves its session closed, on the returning and on the
\* raising paths alike, and a command that failed leaves the store as it was.
C9_SessionAlwaysReleased ==
    [][/\ ~last'.open
       /\ (last'.exc # "" \/ last'.out = Taken) => (users' = users /\ schema' = schema)]_vars

\* a change_email that the store rejected has ended with its session closed
C9_Witness ==
    /\ last.cmd = "change_email"
    /\ last.exc = "IntegrityError"
    /\ last.exit = 1
    /\ ~last.open

\* C10: find_user(q) returns exactly the rows whose username or email has q
\* as a substring, each once, says no-users-found-matching exactly when there
\* is none, and no read command changes the store.
C10_FindBySubstring ==
    [][/\ (last'.cmd = "find_user" /\ schema)
          => LET q == last'.args[1]
                 Has(r) == IsSubstring(q, r.username) \/ IsSubstring(q, r.email)
                 expected == SelectSeq(users, Has)
             IN  /\ last'.result = expected
                 /\ (last'.out = "No users found matching \"" \o q \o "\"")
                      <=> (expected = <<>>)
       /\ last'.cmd \in {"find_user", "get_user", "get_all_users", "list_users"}
          => (users' = users /\ schema' = schema)]_vars

====
